---- MODULE Spec2Model ----
(***************************************************************************)
(* Flavour Fusion recipe blog generator (src/recipe.py).                   *)
(*                                                                         *)
(* Python strings are TLA+ strings; a character is a string of length 1.   *)
(* The string helpers below follow the Python built-ins the program uses   *)
(* (str.strip, str.split, str.replace, str.startswith, str.isdigit,        *)
(* str.title, str.format, re.sub).                                         *)
(***************************************************************************)
EXTENDS Integers, Sequences, FiniteSets, TLC

VARIABLES
    text_generator,  \* the closure variable of create_interface (line 189)
    inits,           \* how many times initialize_models has been entered
    built,           \* how many generator instances have been constructed
    pc,              \* per handler thread: the line it is at
    req,             \* per thread: the arguments (topic, word_count) of its call
    arg,             \* per thread: the text_generator parameter / local
    tmp,             \* per thread: the value initialize_models returned to the wrapper
    via,             \* per thread: how the current call entered (wrapper or direct)
    calls,           \* per thread: the generator calls made by the current call
    cur_title,       \* per thread: the title of the current call
    blog_sections,   \* per thread: the blog_sections dict of the current call
    picks,           \* per thread: the templates the current call has drawn
    fail,            \* per thread: the failure the current call met, if any
    ret,             \* per thread: the value the current call returned
    stage,           \* text harness: which function has been applied
    text_prompt,     \* text harness: the prompt
    text_in,         \* text harness: the input text
    text_out         \* text harness: the output text

vars ==
    <<text_generator, inits, built, pc, req, arg, tmp, via, calls, cur_title,
      blog_sections, picks, fail, ret, stage, text_prompt, text_in, text_out>>

procVars ==
    <<text_generator, inits, built, pc, req, arg, tmp, via, calls, cur_title,
      blog_sections, picks, fail, ret>>

textVars == <<stage, text_prompt, text_in, text_out>>

-----------------------------------------------------------------------------
(* Bounds of the model.                                                     *)

\* initialize_models is entered at most this many times in a behaviour
MaxInits == 3

\* the longest input text of the text harness
MaxLen == 5

\* the most pieces an echoed generator response is made of
MaxPieces == 3

-----------------------------------------------------------------------------
(* Python string built-ins.                                                 *)

Char(s, i) == SubSeq(s, i, i)

From(s, i) == SubSeq(s, i, Len(s))

Whitespace == {" ", "\t", "\n", "\r", "\f"}

Digits == "0123456789"

LowerCase == "abcdefghijklmnopqrstuvwxyz"

UpperCase == "ABCDEFGHIJKLMNOPQRSTUVWXYZ"

Min(S) == CHOOSE x \in S : \A y \in S : x <= y

Max(S) == CHOOSE x \in S : \A y \in S : x >= y

\* the position of character c in alphabet, 0 when it is not in it
IndexIn(alphabet, c) ==
    LET hits == {i \in 1..Len(alphabet) : Char(alphabet, i) = c} IN
    IF hits = {} THEN 0 ELSE Min(hits)

\* c.isdigit()
IsDigit(c) == IndexIn(Digits, c) # 0

IsAlpha(c) == IndexIn(LowerCase, c) # 0 \/ IndexIn(UpperCase, c) # 0

ToUpper(c) ==
    LET i == IndexIn(LowerCase, c) IN IF i = 0 THEN c ELSE Char(UpperCase, i)

ToLower(c) ==
    LET i == IndexIn(UpperCase, c) IN IF i = 0 THEN c ELSE Char(LowerCase, i)

\* s.startswith(p)
StartsWith(s, p) == Len(p) <= Len(s) /\ SubSeq(s, 1, Len(p)) = p

\* the first position >= i of s that holds no whitespace, Len(s) + 1 if none
SkipSpaceRight(s, i) ==
    Min({k \in i..(Len(s) + 1) : k > Len(s) \/ Char(s, k) \notin Whitespace})

\* the last position <= j of s that holds no whitespace, 0 if none
SkipSpaceLeft(s, j) ==
    Max({k \in 0..j : k = 0 \/ Char(s, k) \notin Whitespace})

\* s.strip()
Strip(s) == SubSeq(s, SkipSpaceRight(s, 1), SkipSpaceLeft(s, Len(s)))

\* the first position >= i at which sub occurs in s, 0 if none (s.find(sub, i))
Find(s, sub, i) ==
    LET hits == {k \in i..(Len(s) - Len(sub) + 1) :
                    /\ Char(s, k) = Char(sub, 1)
                    /\ SubSeq(s, k, k + Len(sub) - 1) = sub}
    IN  IF hits = {} THEN 0 ELSE Min(hits)

\* s.replace(old, new), old not empty: every non-overlapping occurrence,
\* left to right
RECURSIVE Replace(_, _, _)
Replace(s, old, new) ==
    LET k == Find(s, old, 1) IN
    IF k = 0 THEN s
    ELSE SubSeq(s, 1, k - 1) \o new \o Replace(From(s, k + Len(old)), old, new)

\* the pieces of s from position i on that end right before the positions
\* ends, in order
RECURSIVE Pieces(_, _, _)
Pieces(s, i, ends) ==
    IF ends = {} THEN <<>>
    ELSE <<SubSeq(s, i, Min(ends) - 1)>>
             \o Pieces(s, Min(ends) + 1, ends \ {Min(ends)})

\* s.split(sep), sep a single character: a sequence of strings
Split(s, sep) ==
    Pieces(s, 1, {k \in 1..Len(s) : Char(s, k) = sep} \cup {Len(s) + 1})

\* str(n) for a natural number n
RECURSIVE IntStr(_)
IntStr(n) ==
    IF n < 10 THEN Char(Digits, n + 1)
    ELSE IntStr(n \div 10) \o Char(Digits, (n % 10) + 1)

\* re.sub(r'\s+', ' ', s)
RECURSIVE CollapseSpaces(_)
CollapseSpaces(s) ==
    LET spaces == {k \in 1..Len(s) : Char(s, k) \in Whitespace} IN
    IF spaces = {} THEN s
    ELSE SubSeq(s, 1, Min(spaces) - 1) \o " "
             \o CollapseSpaces(From(s, SkipSpaceRight(s, Min(spaces))))

\* s.title(): the first letter of every run of letters in upper case, the
\* other letters in lower case
RECURSIVE TitleFrom(_, _, _)
TitleFrom(s, i, inWord) ==
    IF i > Len(s) THEN ""
    ELSE LET c == Char(s, i) IN
         (IF inWord THEN ToLower(c) ELSE ToUpper(c))
             \o TitleFrom(s, i + 1, IsAlpha(c))

Title(s) == TitleFrom(s, 1, FALSE)

\* the first position >= i of s that holds no newline, Len(s) + 1 if none
SkipNewlines(s, i) ==
    Min({k \in i..(Len(s) + 1) : k > Len(s) \/ Char(s, k) # "\n"})

\* re.sub(r'\n{3,}', '\n\n', s)
RECURSIVE CollapseNewlines(_)
CollapseNewlines(s) ==
    LET k == Find(s, "\n\n\n", 1) IN
    IF k = 0 THEN s
    ELSE SubSeq(s, 1, k - 1) \o "\n\n" \o CollapseNewlines(From(s, SkipNewlines(s, k)))

\* template.format(**kwargs): every {name} is replaced by kwargs[name]; the
\* values are not scanned again
RECURSIVE Format(_, _)
Format(template, kwargs) ==
    LET open == Find(template, "{", 1) IN
    IF open = 0 THEN template
    ELSE LET close == Find(template, "}", open)
             name  == SubSeq(template, open + 1, close - 1)
         IN  SubSeq(template, 1, open - 1) \o kwargs[name]
                 \o Format(From(template, close + 1), kwargs)

-----------------------------------------------------------------------------
(* The program's constants.                                                 *)

programmer_jokes ==
    << "Why do programmers prefer dark mode? Because light attracts bugs!",
       "Why was the JavaScript developer sad? Because he didn't get arrays!",
       "What's a programmer's favorite hangout place? The Foo Bar!",
       "How many programmers does it take to change a light bulb? None, that's a hardware problem!",
       "Why do Java developers wear glasses? Because they don't C#!",
       "A SQL query walks into a bar, walks up to two tables and asks, 'Can I join you?'",
       "Why did the developer go broke? Because he used up all his cache!",
       "Why don't programmers like nature? It has too many bugs and no debugging tool!",
       "What's a programmer's favorite place to hang out? Foo Bar!",
       "Why did the programmer quit his job? Because he didn't get arrays!" >>

recipe_templates ==
    [ intro |->
        << "# {title}\n\n{intro_text}",
           "# Delicious {title}\n\n{intro_text}",
           "# {title}: A Culinary Adventure\n\n{intro_text}" >>,
      ingredients |->
        << "## Ingredients\n\n{ingredients_list}",
           "## What You'll Need\n\n{ingredients_list}",
           "## Gather These Ingredients\n\n{ingredients_list}" >>,
      instructions |->
        << "## Instructions\n\n{instructions_list}",
           "## Method\n\n{instructions_list}",
           "## Step-by-Step Guide\n\n{instructions_list}" >>,
      tips |->
        << "## Tips and Variations\n\n{tips_text}",
           "## Make It Your Own\n\n{tips_text}",
           "## Chef's Tips\n\n{tips_text}" >>,
      nutrition |->
        << "## Nutritional Information\n\n{nutrition_text}",
           "## Nutrition Facts\n\n{nutrition_text}",
           "## Health Benefits\n\n{nutrition_text}" >>,
      conclusion |->
        << "## Final Thoughts\n\n{conclusion_text}",
           "## Enjoy!\n\n{conclusion_text}",
           "## Bon Appétit\n\n{conclusion_text}" >> ]

\* the order in which generate_recipe_blog generates and assembles the sections
Sections ==
    << "intro", "ingredients", "instructions", "tips", "nutrition", "conclusion" >>

\* the key of blog_sections a section's text is stored under
SectionKey ==
    [ intro |-> "intro_text", ingredients |-> "ingredients_list",
      instructions |-> "instructions_list", tips |-> "tips_text",
      nutrition |-> "nutrition_text", conclusion |-> "conclusion_text" ]

\* the max_length each section's generator call passes
max_length ==
    [ intro |-> 100, ingredients |-> 200, instructions |-> 400, tips |-> 150,
      nutrition |-> 100, conclusion |-> 100 ]

\* the weights of section_words, in percent
SectionWeight ==
    [ intro |-> 15, ingredients |-> 20, instructions |-> 35, tips |-> 15,
      nutrition |-> 5, conclusion |-> 10 ]

\* section_words: int(word_count * weight). For the word counts the model
\* draws (300, 800, 1500) int() of the float product is this quotient.
SectionWords(word_count) ==
    [ s \in DOMAIN SectionWeight |-> (word_count * SectionWeight[s]) \div 100 ]

\* the f-string prompts
Prompt(section, title) ==
    CASE section = "intro" ->
           "Write a short introduction about " \o title
               \o " recipe. Talk about its origin and flavors."
      [] section = "ingredients" -> "List ingredients for " \o title \o ":"
      [] section = "instructions" ->
           "Step by step instructions to make " \o title \o ":"
      [] section = "tips" ->
           "Provide cooking tips and variations for " \o title \o ":"
      [] section = "nutrition" ->
           "Approximate nutritional information for " \o title \o ":"
      [] section = "conclusion" ->
           "Write a short conclusion about enjoying " \o title \o ":"

InitErrorMessage == "Error initializing model. Please check your Colab runtime."

ErrorIndicator == "Error generating recipe blog: "

-----------------------------------------------------------------------------
(* The section formatters.                                                  *)

\* response.replace(prompt, "").strip()
StripEcho(response, prompt) == Strip(Replace(response, prompt, ""))

\* IngredientsItem with the test for an existing bullet left out
IngredientsItemAlwaysPrefixed(line) ==
    IF Strip(line) # "" THEN "- " \o Strip(line) \o "\n" ELSE ""

\* one pass of the ingredients loop body: what it appends for this line
IngredientsItem(line) ==
    IF Strip(line) # ""
    THEN IF ~StartsWith(Strip(line), "*") /\ ~StartsWith(Strip(line), "-")
         THEN "- " \o Strip(line) \o "\n"
         ELSE Strip(line) \o "\n"
    ELSE ""

RECURSIVE IngredientsLoop(_, _)
IngredientsLoop(lines, i) ==
    IF i > Len(lines) THEN ""
    ELSE IngredientsItem(lines[i]) \o IngredientsLoop(lines, i + 1)

\* the markdown list made of ingredients_text
FormatIngredients(ingredients_text) ==
    IngredientsLoop(Split(ingredients_text, "\n"), 1)

\* InstructionsItem with step_num advanced on every line that is kept
InstructionsItemCountsEveryLine(line, step_num) ==
    IF Strip(line) # ""
    THEN IF /\ ~IsDigit(Char(Strip(line), 1))
            /\ ~StartsWith(Strip(line), "*")
            /\ ~StartsWith(Strip(line), "-")
         THEN [ out |-> IntStr(step_num) \o ". " \o Strip(line) \o "\n\n",
                step_num |-> step_num + 1 ]
         ELSE [ out |-> Strip(line) \o "\n\n", step_num |-> step_num + 1 ]
    ELSE [ out |-> "", step_num |-> step_num ]

\* one pass of the instructions loop body: what it appends for this line and
\* the step_num it leaves
InstructionsItem(line, step_num) ==
    IF Strip(line) # ""
    THEN IF /\ ~IsDigit(Char(Strip(line), 1))
            /\ ~StartsWith(Strip(line), "*")
            /\ ~StartsWith(Strip(line), "-")
         THEN [ out |-> IntStr(step_num) \o ". " \o Strip(line) \o "\n\n",
                step_num |-> step_num + 1 ]
         ELSE [ out |-> Strip(line) \o "\n\n", step_num |-> step_num ]
    ELSE [ out |-> "", step_num |-> step_num ]

RECURSIVE InstructionsLoop(_, _, _)
InstructionsLoop(lines, i, step_num) ==
    IF i > Len(lines) THEN ""
    ELSE LET item == InstructionsItem(lines[i], step_num) IN
         item.out \o InstructionsLoop(lines, i + 1, item.step_num)

\* the numbered list made of instructions_text
FormatInstructions(instructions_text) ==
    InstructionsLoop(Split(instructions_text, "\n"), 1, 1)

\* what is stored in blog_sections for a section, given the text left after
\* the prompt was stripped
FormatSection(section, text) ==
    CASE section = "ingredients" -> FormatIngredients(text)
      [] section = "instructions" -> FormatInstructions(text)
      [] OTHER -> text

-----------------------------------------------------------------------------
(* Values of the program.                                                   *)

\* text_generator values: None, a generator the caller injects, and the n-th
\* instance initialize_models has constructed
None == [kind |-> "None", id |-> 0]

Stub == [kind |-> "stub", id |-> 0]

Pipeline(n) == [kind |-> "pipeline", id |-> n]

NoReq == [topic |-> [str |-> FALSE, s |-> ""], word_count |-> 0]

NoFail == [stage |-> "none", k |-> 0, reason |-> ""]

NoRet == [kind |-> "none", joke |-> "", doc |-> ""]

\* the state of the handler threads T before any call
ProcInit(T) ==
    /\ text_generator = None
    /\ inits = 0
    /\ built = 0
    /\ pc = [t \in T |-> "idle"]
    /\ req = [t \in T |-> NoReq]
    /\ arg = [t \in T |-> None]
    /\ tmp = [t \in T |-> None]
    /\ via = [t \in T |-> "none"]
    /\ calls = [t \in T |-> <<>>]
    /\ cur_title = [t \in T |-> ""]
    /\ blog_sections = [t \in T |-> <<>>]
    /\ picks = [t \in T |-> <<>>]
    /\ fail = [t \in T |-> NoFail]
    /\ ret = [t \in T |-> NoRet]

TextIdle ==
    /\ stage = "off"
    /\ text_prompt = ""
    /\ text_in = ""
    /\ text_out = ""

-----------------------------------------------------------------------------
(* generate_recipe_blog: the try block.                                     *)
(*                                                                         *)
(* The generator is the environment. env describes how it behaves during   *)
(* one call of generate_recipe_blog:                                       *)
(*   env.texts   the text it generates for each section,                   *)
(*   env.echo    whether the generated text starts with the prompt,        *)
(*   env.failAt  0: nothing fails; 1..6: the call for that section fails;  *)
(*               7: an exception is raised while the document is put       *)
(*               together (lines 170-179),                                 *)
(*   env.kind    "raise": the failing call raises env.reason;              *)
(*               "nontext": it returns a generated_text of None, so that   *)
(*               the .replace of the next line raises,                     *)
(*   env.reason  the message of the raised exception.                      *)

NotAString == "'NoneType' object has no attribute 'strip'"

NotAText == "'NoneType' object has no attribute 'replace'"

\* lines 102-104
NormaliseTitle(topic) == Title(CollapseSpaces(Strip(topic)))

\* the arguments of one generator call
CallRecord(section, title) ==
    [ section |-> section,
      prompt |-> Prompt(section, title),
      max_length |-> max_length[section],
      num_return_sequences |-> 1 ]

\* what the generator returns as [0]['generated_text']
Response(env, section, prompt) ==
    (IF env.echo THEN prompt ELSE "") \o env.texts[section]

\* OnCallFailure with the failed call made once more before giving up
OnCallFailureRetried(i, title, made, failure) ==
    [made EXCEPT !.calls = Append(@, CallRecord(Sections[i], title)),
                 !.fail = failure]

\* what happens when the generator call for section number i has failed:
\* the exception leaves the try block, nothing else is called
OnCallFailure(i, title, made, failure) == [made EXCEPT !.fail = failure]

\* lines 119-167 from section number i on: acc holds the calls made, the
\* blog_sections filled and the failure met so far
RECURSIVE GenerateSections(_, _, _, _)
GenerateSections(i, title, env, acc) ==
    IF i > Len(Sections) THEN acc
    ELSE LET section == Sections[i]
             call    == CallRecord(section, title)
             made    == [acc EXCEPT !.calls = Append(@, call)]
         IN  IF env.failAt = i /\ env.kind = "raise"
             THEN OnCallFailure(i, title, made,
                      [stage |-> "generate", k |-> i, reason |-> env.reason])
             ELSE IF env.failAt = i /\ env.kind = "nontext"
             THEN [made EXCEPT
                      !.fail = [stage |-> "format", k |-> i, reason |-> NotAText]]
             ELSE GenerateSections(i + 1, title, env,
                      [made EXCEPT !.blog_sections =
                          (SectionKey[section] :>
                              FormatSection(section,
                                  StripEcho(Response(env, section, call.prompt),
                                            call.prompt))) @@ @])

\* lines 101-167: the title and the six sections
TrySections(topic, word_count, env) ==
    IF ~topic.str
    THEN [ title |-> "", calls |-> <<>>, blog_sections |-> <<>>,
           fail |-> [stage |-> "normalise", k |-> 0, reason |-> NotAString] ]
    ELSE LET title == NormaliseTitle(topic.s)
             section_words == SectionWords(word_count)
         IN  GenerateSections(1, title, env,
                 [ title |-> title, calls |-> <<>>, blog_sections |-> <<>>,
                   fail |-> NoFail ])

\* random.choice(recipe_templates[section]) for the draw of this call
ChosenTemplate(section, draw) ==
    recipe_templates[section][draw[section]]

\* lines 171-176 from section number i on
RECURSIVE AssembleFrom(_, _, _, _)
AssembleFrom(i, title, filled, draw) ==
    IF i > Len(Sections) THEN ""
    ELSE LET section == Sections[i]
             kwargs  == IF section = "intro"
                        THEN ("title" :> title) @@ filled
                        ELSE filled
         IN  Format(ChosenTemplate(section, draw), kwargs)
                 \o (IF i < Len(Sections) THEN "\n\n" ELSE "")
                 \o AssembleFrom(i + 1, title, filled, draw)

\* AssembleFrom with the sections left out whose text is empty
RECURSIVE AssembleFromOmittingEmpty(_, _, _, _)
AssembleFromOmittingEmpty(i, title, filled, draw) ==
    IF i > Len(Sections) THEN ""
    ELSE LET section == Sections[i]
             kwargs  == ("title" :> title) @@ filled
         IN  (IF filled[SectionKey[section]] = "" THEN ""
              ELSE Format(ChosenTemplate(section, draw), kwargs) \o "\n\n")
                 \o AssembleFromOmittingEmpty(i + 1, title, filled, draw)

AssembleOmittingEmpty(title, filled, draw) ==
    CollapseNewlines(AssembleFromOmittingEmpty(1, title, filled, draw))

\* lines 170-179
Assemble(title, filled, draw) ==
    CollapseNewlines(AssembleFrom(1, title, filled, draw))

\* Returned with the try block opened only after the title is made, so that
\* a failure of the normalisation escapes
ReturnedAfterLateTry(joke, failure, blog_content) ==
    IF failure.stage = "none"
    THEN [kind |-> "pair", joke |-> joke, doc |-> blog_content]
    ELSE IF failure.stage = "normalise"
    THEN [kind |-> "raised", joke |-> "", doc |-> ""]
    ELSE [kind |-> "pair", joke |-> joke, doc |-> ErrorIndicator \o failure.reason]

\* lines 181 and 183-184: what generate_recipe_blog returns, given the joke,
\* the failure met in the try block (NoFail if none) and the document
Returned(joke, failure, blog_content) ==
    IF failure.stage = "none"
    THEN [kind |-> "pair", joke |-> joke, doc |-> blog_content]
    ELSE [kind |-> "pair", joke |-> joke, doc |-> ErrorIndicator \o failure.reason]

\* InitFailureReturn with the message in the document slot
InitFailureReturnSwapped == [kind |-> "pair", joke |-> "", doc |-> InitErrorMessage]

\* line 95
InitFailureReturn == [kind |-> "pair", joke |-> InitErrorMessage, doc |-> ""]

\* lines 64-88: what initialize_models returns when the construction
\* succeeds (ok) and when it raises
InitializeModels(ok) == IF ok THEN Pipeline(built + 1) ELSE None

-----------------------------------------------------------------------------
(* Inputs and environments.                                                 *)

\* the slider's minimum and maximum (lines 203-204)
WordCounts == {300, 1500}

TopicText == [str |-> TRUE, s |-> "  vegan   pasta "]

TopicEmpty == [str |-> TRUE, s |-> ""]

TopicNone == [str |-> FALSE, s |-> ""]

SampleTexts ==
    [ intro |-> "A weeknight classic.",
      ingredients |-> "pasta\n- salt\n \n* basil",
      instructions |-> "Boil water\n2. Add pasta\nServe",
      tips |-> "Try chili.",
      nutrition |-> "",
      conclusion |-> "Enjoy it." ]

Reasons == {"CUDA out of memory", "index out of range in self"}

\* the generator behaves, or fails at one place
FaultyEnvs ==
    { [failAt |-> 0, kind |-> "raise", reason |-> "", echo |-> e, texts |-> SampleTexts]
        : e \in BOOLEAN }
    \cup
    { [failAt |-> k, kind |-> "raise", reason |-> r, echo |-> TRUE, texts |-> SampleTexts]
        : k \in 1..7, r \in Reasons }
    \cup
    { [failAt |-> k, kind |-> "nontext", reason |-> "", echo |-> TRUE, texts |-> SampleTexts]
        : k \in 1..6 }

\* the generator behaves, or its first call raises
UIEnvs ==
    { [failAt |-> k, kind |-> "raise", reason |-> "CUDA out of memory",
       echo |-> TRUE, texts |-> SampleTexts] : k \in {0, 1} }

\* texts that are empty, and texts that look like a heading
DocTexts ==
    { SampleTexts,
      [s \in DOMAIN SampleTexts |-> ""],
      [SampleTexts EXCEPT !.intro = "", !.ingredients = " \n ",
                          !.conclusion = ""],
      [SampleTexts EXCEPT !.intro = "Serves two.\n## Ingredients\nSee below.",
                          !.nutrition = "# Vegan Pasta"],
      [SampleTexts EXCEPT !.tips = "## Enjoy!"],
      [SampleTexts EXCEPT !.ingredients = "## Ingredients",
                          !.instructions = "## Method",
                          !.conclusion = "## Method\n\nAs above."] }

\* the generator never fails
DocEnvs ==
    { [failAt |-> 0, kind |-> "raise", reason |-> "", echo |-> TRUE, texts |-> x]
        : x \in DocTexts }

\* every way of drawing one of the three templates for each section
AllDraws == [{Sections[i] : i \in 1..Len(Sections)} -> 1..3]

\* the draws that take the same position in every section
SameDraws == {[s \in {Sections[i] : i \in 1..Len(Sections)} |-> n] : n \in 1..3}

-----------------------------------------------------------------------------
(* The handler threads.                                                     *)

Reset(t) ==
    /\ req' = [req EXCEPT ![t] = NoReq]
    /\ arg' = [arg EXCEPT ![t] = None]
    /\ tmp' = [tmp EXCEPT ![t] = None]
    /\ via' = [via EXCEPT ![t] = "none"]
    /\ calls' = [calls EXCEPT ![t] = <<>>]
    /\ cur_title' = [cur_title EXCEPT ![t] = ""]
    /\ blog_sections' = [blog_sections EXCEPT ![t] = <<>>]
    /\ picks' = [picks EXCEPT ![t] = <<>>]
    /\ fail' = [fail EXCEPT ![t] = NoFail]
    /\ ret' = [ret EXCEPT ![t] = NoRet]

\* the button is clicked: Gradio calls generate_wrapper(topic, word_count)
Click(t, topics, word_counts) ==
    /\ pc[t] = "idle"
    /\ \E topic \in topics, word_count \in word_counts :
         req' = [req EXCEPT ![t] = [topic |-> topic, word_count |-> word_count]]
    /\ via' = [via EXCEPT ![t] = "wrapper"]
    /\ pc' = [pc EXCEPT ![t] = "w248"]
    /\ UNCHANGED <<text_generator, inits, built, arg, tmp, calls, cur_title, blog_sections, picks, fail, ret, textVars>>

\* line 248: if text_generator is None
WrapperTest(t) ==
    /\ pc[t] = "w248"
    /\ pc' = [pc EXCEPT ![t] = IF text_generator = None THEN "w249" ELSE "w250"]
    /\ UNCHANGED <<text_generator, inits, built, req, arg, tmp, via, calls,
                   cur_title, blog_sections, picks, fail, ret, textVars>>

\* line 249, right-hand side: initialize_models()
WrapperInit(t) ==
    /\ pc[t] = "w249"
    /\ inits < MaxInits
    /\ \E ok \in BOOLEAN :
         /\ tmp' = [tmp EXCEPT ![t] = InitializeModels(ok)]
         /\ built' = IF ok THEN built + 1 ELSE built
    /\ inits' = inits + 1
    /\ pc' = [pc EXCEPT ![t] = "w249s"]
    /\ UNCHANGED <<text_generator, req, arg, via, calls, cur_title,
                   blog_sections, picks, fail, ret, textVars>>

\* line 249, the assignment to the nonlocal text_generator
WrapperAssign(t) ==
    /\ pc[t] = "w249s"
    /\ text_generator' = tmp[t]
    /\ pc' = [pc EXCEPT ![t] = "w250"]
    /\ UNCHANGED <<inits, built, req, arg, tmp, via, calls, cur_title,
                   blog_sections, picks, fail, ret, textVars>>

\* line 250: generate_recipe_blog(topic, word_count, text_generator) is called
WrapperCall(t) ==
    /\ pc[t] = "w250"
    /\ arg' = [arg EXCEPT ![t] = text_generator]
    /\ pc' = [pc EXCEPT ![t] = "b92"]
    /\ UNCHANGED <<text_generator, inits, built, req, tmp, via, calls, cur_title, blog_sections, picks, fail, ret, textVars>>

\* generate_recipe_blog is called by another caller, with a generator of its
\* own or with none
DirectCall(t, topics, word_counts, generators) ==
    /\ pc[t] = "idle"
    /\ \E topic \in topics, word_count \in word_counts :
         req' = [req EXCEPT ![t] = [topic |-> topic, word_count |-> word_count]]
    /\ \E g \in generators : arg' = [arg EXCEPT ![t] = g]
    /\ via' = [via EXCEPT ![t] = "direct"]
    /\ pc' = [pc EXCEPT ![t] = "b92"]
    /\ UNCHANGED <<text_generator, inits, built, tmp, calls, cur_title,
                   blog_sections, picks, fail, ret, textVars>>

\* lines 92-95, text_generator is None
BlogInit(t) ==
    /\ pc[t] = "b92"
    /\ arg[t] = None
    /\ inits < MaxInits
    /\ inits' = inits + 1
    /\ \/ /\ arg' = [arg EXCEPT ![t] = InitializeModels(TRUE)]
          /\ built' = built + 1
          /\ pc' = [pc EXCEPT ![t] = "b98"]
          /\ UNCHANGED <<fail, ret>>
       \/ /\ arg' = [arg EXCEPT ![t] = InitializeModels(FALSE)]
          /\ built' = built
          /\ fail' = [fail EXCEPT ![t] =
                         [stage |-> "init", k |-> 0, reason |-> InitErrorMessage]]
          /\ ret' = [ret EXCEPT ![t] = InitFailureReturn]
          /\ pc' = [pc EXCEPT ![t] = "returned"]
    /\ UNCHANGED <<text_generator, req, tmp, via, calls, cur_title,
                   blog_sections, picks, textVars>>

\* line 92, text_generator is not None
BlogSkipInit(t) ==
    /\ pc[t] = "b92"
    /\ arg[t] # None
    /\ pc' = [pc EXCEPT ![t] = "b98"]
    /\ UNCHANGED <<text_generator, inits, built, req, arg, tmp, via, calls,
                   cur_title, blog_sections, picks, fail, ret, textVars>>

\* lines 98-184: the joke is drawn, the try block runs and the call returns
BlogRun(t, envs, draws) ==
    /\ pc[t] = "b98"
    /\ \E env \in envs :
         \E try \in {TrySections(req[t].topic, req[t].word_count, env)} :
             /\ IF try.fail.stage # "none" \/ env.failAt = 7
                THEN LET failure == IF try.fail.stage # "none" THEN try.fail
                                    ELSE [stage |-> "assemble", k |-> 0,
                                          reason |-> env.reason]
                     IN  /\ \E j \in 1..Len(programmer_jokes) :
                              ret' = [ret EXCEPT ![t] =
                                         Returned(programmer_jokes[j], failure, "")]
                         /\ fail' = [fail EXCEPT ![t] = failure]
                         /\ picks' = picks
                ELSE \E draw \in draws :
                     \E blog_content \in
                            {Assemble(try.title, try.blog_sections, draw)} :
                         /\ \E j \in 1..Len(programmer_jokes) :
                              ret' = [ret EXCEPT ![t] =
                                         Returned(programmer_jokes[j], NoFail,
                                                  blog_content)]
                         /\ fail' = fail
                         /\ picks' = [picks EXCEPT ![t] = draw]
             /\ calls' = [calls EXCEPT ![t] = try.calls]
             /\ cur_title' = [cur_title EXCEPT ![t] = try.title]
             /\ blog_sections' = [blog_sections EXCEPT ![t] = try.blog_sections]
    /\ pc' = [pc EXCEPT ![t] = "returned"]
    /\ UNCHANGED <<text_generator, inits, built, req, arg, tmp, via, textVars>>

\* the caller has taken the returned pair; the thread is free again
Return(t) ==
    /\ pc[t] = "returned"
    /\ pc' = [pc EXCEPT ![t] = "idle"]
    /\ Reset(t)
    /\ UNCHANGED <<text_generator, inits, built, textVars>>

\* one process, one call at a time: the button and direct callers
Init == ProcInit({1}) /\ TextIdle

Next ==
    \E t \in {1} :
        \/ Click(t, {TopicText, TopicNone}, WordCounts)
        \/ WrapperTest(t)
        \/ WrapperInit(t)
        \/ WrapperAssign(t)
        \/ WrapperCall(t)
        \/ DirectCall(t, {TopicText, TopicNone}, WordCounts, {None, Stub})
        \/ BlogInit(t)
        \/ BlogSkipInit(t)
        \/ BlogRun(t, FaultyEnvs, SameDraws)
        \/ Return(t)

Spec == Init /\ [][Next]_vars

\* the front end alone: every call comes from the button
UIStep(t) ==
    \/ Click(t, {TopicText}, {800})
    \/ WrapperTest(t)
    \/ WrapperInit(t)
    \/ WrapperAssign(t)
    \/ WrapperCall(t)
    \/ BlogInit(t)
    \/ BlogSkipInit(t)
    \/ BlogRun(t, UIEnvs, SameDraws)
    \/ Return(t)

\* one handler at a time
InitUI == ProcInit({1}) /\ TextIdle

NextUI == \E t \in {1} : UIStep(t)

SpecUI == InitUI /\ [][NextUI]_vars

\* two handler threads, as Gradio runs overlapping events
InitConc == ProcInit({1, 2}) /\ TextIdle

NextConc == \E t \in {1, 2} : UIStep(t)

SpecConc == InitConc /\ [][NextConc]_vars

\* the document: a caller with a generator of its own, which never fails
InitDoc == ProcInit({1}) /\ TextIdle

NextDoc ==
    \E t \in {1} :
        \/ DirectCall(t, {TopicText, TopicEmpty}, {800}, {Stub})
        \/ BlogSkipInit(t)
        \/ BlogRun(t, DocEnvs, AllDraws)
        \/ Return(t)

SpecDoc == InitDoc /\ [][NextDoc]_vars

-----------------------------------------------------------------------------
(* The text harness: the echo stripping and the two list formatters applied *)
(* to every text of a bounded set.                                          *)

Alphabet == {"a", " ", "\n", "-", "*", "2"}

\* the strings over Alphabet of length <= n
RECURSIVE Texts(_)
Texts(n) ==
    IF n = 0 THEN {""}
    ELSE LET S == Texts(n - 1) IN S \cup {s \o c : s \in S, c \in Alphabet}

HarnessPrompts == {Prompt(Sections[i], "Dal") : i \in 1..Len(Sections)}

\* the responses made of at most n pieces, each the prompt or a character
RECURSIVE EchoTexts(_, _)
EchoTexts(prompt, n) ==
    IF n = 0 THEN {""}
    ELSE LET S == EchoTexts(prompt, n - 1) IN
         S \cup {s \o c : s \in S, c \in {prompt, "a", " ", "\n"}}

InitText ==
    /\ ProcInit({})
    /\ stage = "input"
    /\ text_out = ""
    /\ \/ /\ text_prompt = ""
          /\ text_in \in Texts(MaxLen)
       \/ /\ text_prompt \in HarnessPrompts
          /\ text_in \in EchoTexts(text_prompt, MaxPieces)

\* lines 122, 127, 141, 157, 162, 167
ApplyStripEcho ==
    /\ stage = "input"
    /\ text_prompt # ""
    /\ stage' = "stripped"
    /\ text_out' = StripEcho(text_in, text_prompt)
    /\ UNCHANGED <<text_prompt, text_in, procVars>>

\* lines 129-136
ApplyIngredients ==
    /\ stage = "input"
    /\ text_prompt = ""
    /\ stage' = "ingredients"
    /\ text_out' = FormatIngredients(text_in)
    /\ UNCHANGED <<text_prompt, text_in, procVars>>

\* lines 143-152
ApplyInstructions ==
    /\ stage = "input"
    /\ text_prompt = ""
    /\ stage' = "instructions"
    /\ text_out' = FormatInstructions(text_in)
    /\ UNCHANGED <<text_prompt, text_in, procVars>>

NextText == ApplyStripEcho \/ ApplyIngredients \/ ApplyInstructions

SpecText == InitText /\ [][NextText]_vars

-----------------------------------------------------------------------------
(* Claims about generate_recipe_blog and its callers.                       *)

\* the order of the sections the claims speak of
HeadingOrder ==
    << "intro", "ingredients", "instructions", "tips", "nutrition", "conclusion" >>

\* the heading a template produces: its first line, the title filled in
Heading(section, n, title) ==
    LET template == recipe_templates[section][n] IN
    Format(SubSeq(template, 1, Find(template, "\n", 1) - 1), [title |-> title])

\* every heading a document of thread t's call can have; there is no intro
\* heading when the topic has given no title
AllHeadings(t) ==
    { Heading(HeadingOrder[i], n, "") : i \in 2..6, n \in 1..3 }
    \cup (IF req[t].topic.str
          THEN { Heading("intro", n, cur_title[t]) : n \in 1..3 }
          ELSE {})

\* thread t has returned from generate_recipe_blog, which had a generator
ReturnedWithGenerator(t) == pc[t] = "returned" /\ arg[t] # None

\* C1: with a generator available, generate_recipe_blog returns a pair and
\* never raises, wherever a failure occurs; the first element is a non-empty
\* joke of the catalog; after a failure the second element is the error
\* indicator followed by the failure reason and holds no section heading.
C1_FailureContract ==
    \A t \in DOMAIN pc :
        ReturnedWithGenerator(t) =>
            /\ ret[t].kind = "pair"
            /\ \E j \in 1..Len(programmer_jokes) : ret[t].joke = programmer_jokes[j]
            /\ ret[t].joke # ""
            /\ fail[t].stage # "none" =>
                 /\ StartsWith(ret[t].doc, ErrorIndicator)
                 /\ From(ret[t].doc, Len(ErrorIndicator) + 1) = fail[t].reason
                 /\ \A h \in AllHeadings(t) : Find(ret[t].doc, h, 1) = 0

\* C1 witness: the third generator call has raised and the call has returned
\* the error document
C1_Witness ==
    \E t \in DOMAIN pc :
        /\ ReturnedWithGenerator(t)
        /\ fail[t].stage = "generate"
        /\ fail[t].k = 3
        /\ ret[t].doc = "Error generating recipe blog: CUDA out of memory"

\* C2: called without a generator, and the initialisation failing,
\* generate_recipe_blog returns the initialisation error message in the joke
\* slot and the empty document, having called the generator for no section
\* and drawn no template.
C2_InitFailureReturn ==
    \A t \in DOMAIN pc :
        (pc[t] = "returned" /\ arg[t] = None) =>
            /\ ret[t].kind = "pair"
            /\ ret[t].joke = InitErrorMessage
            /\ ret[t].doc = ""
            /\ calls[t] = <<>>
            /\ picks[t] = <<>>

\* C2 witness: a direct call without a generator has returned after the
\* initialisation failed
C2_Witness ==
    \E t \in DOMAIN pc :
        /\ pc[t] = "returned"
        /\ arg[t] = None
        /\ via[t] = "direct"
        /\ fail[t].stage = "init"

\* C3, as claimed: over sequential clicks initialize_models is run at most
\* once.
C3_InitializedAtMostOnce == inits <= 1

\* C4, as claimed: the max_length of every generator call is the share of
\* word_count its section has by the fixed weights.
C4_BudgetFromWordCount ==
    \A t \in DOMAIN pc :
        \A i \in 1..Len(calls[t]) :
            calls[t][i].max_length =
                SectionWords(req[t].word_count)[calls[t][i].section]

\* thread t has returned a document from a call in which nothing failed
Succeeded(t) ==
    pc[t] = "returned" /\ arg[t] # None /\ fail[t].stage = "none"

DocLines(t) == Split(ret[t].doc, "\n")

\* the headings of the templates drawn for the six sections, in the order of
\* the sections
ChosenHeadings(t) ==
    LET h(i) == Heading(HeadingOrder[i], picks[t][HeadingOrder[i]], cur_title[t])
    IN  <<h(1), h(2), h(3), h(4), h(5), h(6)>>

\* the lines of the texts stored in blog_sections
BodyLines(t) ==
    UNION { UNION { {lines[n] : n \in 1..Len(lines)}
                    : lines \in {Split(blog_sections[t][k], "\n")} }
            : k \in DOMAIN blog_sections[t] }

\* the line numbers at which the line is h
Places(lines, h) == {k \in 1..Len(lines) : lines[k] = h}

\* the first line after line number p that is h, 0 if none
NextPlace(lines, h, p) ==
    LET hits == {k \in Places(lines, h) : k > p} IN
    IF hits = {} THEN 0 ELSE Min(hits)

\* the places of the headings hs from number i on, each looked for after the
\* one before, which is at p; 0 for a heading that is not found
RECURSIVE HeadingPlaces(_, _, _, _)
HeadingPlaces(lines, hs, i, p) ==
    IF i > Len(hs) THEN <<>>
    ELSE LET q == NextPlace(lines, hs[i], p) IN
         IF q = 0 THEN <<0>>
         ELSE <<q>> \o HeadingPlaces(lines, hs, i + 1, q)

\* C5, as claimed: the document of a successful call holds each of the six
\* chosen headings exactly once, in the fixed order.
C5_HeadingsExactlyOnce ==
    \A t \in DOMAIN pc :
        Succeeded(t) =>
            \A lines \in {DocLines(t)} :
            \A hs \in {ChosenHeadings(t)} :
                /\ \A i \in 1..6 : Cardinality(Places(lines, hs[i])) = 1
                /\ \A i \in 1..5 :
                     NextPlace(lines, hs[i], 0) < NextPlace(lines, hs[i + 1], 0)

\* C5, amended: the document of a successful call starts with the intro
\* heading and holds the six chosen headings as lines in the fixed order; a
\* section whose text is empty is its heading followed by a blank line and
\* the next heading (or the end); and each heading occurs exactly once when no
\* line of a section's text is itself one of the chosen headings.
C5_HeadingsInOrder ==
    \A t \in DOMAIN pc :
        Succeeded(t) =>
            \A lines \in {DocLines(t)} :
            \A hs \in {ChosenHeadings(t)} :
            \A at \in {HeadingPlaces(lines, hs, 1, 0)} :
                /\ Len(at) = 6
                /\ \A i \in 1..6 : at[i] # 0
                /\ at[1] = 1
                /\ \A i \in 1..6 :
                     blog_sections[t][SectionKey[HeadingOrder[i]]] = "" =>
                         /\ \A k \in (at[i] + 1)..Len(lines) : lines[k] = ""
                                \/ (i < 6 /\ k >= at[i + 1])
                         /\ i < 6 => at[i + 1] = at[i] + 2
                /\ (\A body \in {BodyLines(t)} : \A i \in 1..6 : hs[i] \notin body) =>
                     \A i \in 1..6 : Cardinality(Places(lines, hs[i])) = 1

\* C5 witness: a document has been returned whose nutrition text is empty
\* and whose tips text is a line that looks like a heading
C5_Witness ==
    \E t \in DOMAIN pc :
        /\ Succeeded(t)
        /\ blog_sections[t]["nutrition_text"] = ""
        /\ blog_sections[t]["tips_text"] = "## Enjoy!"
        /\ picks[t]["conclusion"] = 2

\* C6, as claimed: when no initialisation fails, overlapping clicks construct
\* the generator once.
C6_OneConstruction == (inits = built) => built <= 1

\* C7: the generator calls of one call of generate_recipe_blog are the
\* sections in the fixed order from the first on, each once, each asking for
\* one sequence; when the k-th call raises, k calls have been made; when
\* nothing fails, six.
C7_CallsInOrder ==
    \A t \in DOMAIN pc :
        ReturnedWithGenerator(t) =>
            /\ Len(calls[t]) <= 6
            /\ \A i \in 1..Len(calls[t]) :
                 /\ calls[t][i].section = HeadingOrder[i]
                 /\ calls[t][i].num_return_sequences = 1
            /\ fail[t].stage = "generate" => Len(calls[t]) = fail[t].k
            /\ fail[t].stage = "none" => Len(calls[t]) = 6

\* C7 witness: the third call has raised after exactly three calls
C7_Witness ==
    \E t \in DOMAIN pc :
        /\ ReturnedWithGenerator(t)
        /\ fail[t].stage = "generate"
        /\ fail[t].k = 3
        /\ Len(calls[t]) = 3
        /\ calls[t][3].section = "instructions"

-----------------------------------------------------------------------------
(* Claims about the text functions, checked under SpecText.                 *)

\* the lines of text that are not blank after trimming, trimmed, in order
KeptLines(text) ==
    LET lines   == Split(text, "\n")
        trimmed == [i \in 1..Len(lines) |-> Strip(lines[i])]
    IN  SelectSeq(trimmed, LAMBDA l : l # "")

Bulleted(l) == Char(l, 1) \in {"*", "-"}

PreNumbered(l) == Char(l, 1) \in {"0", "1", "2", "3", "4", "5", "6", "7", "8", "9"}

\* C8: the instructions formatter drops the lines that are blank after
\* trimming; a remaining line that starts with a digit, '*' or '-' is emitted
\* trimmed and unchanged; every other line is emitted as 'N. ' and the trimmed
\* line, N being one more than the number of lines the formatter has numbered
\* before it; every emitted entry is followed by a blank line.
C8_InstructionsNumbering ==
    stage = "instructions" =>
        LET kept == KeptLines(text_in)
            out  == Split(text_out, "\n")
            own(i) == ~PreNumbered(kept[i]) /\ ~Bulleted(kept[i])
        IN  /\ Len(out) = 2 * Len(kept) + 1
            /\ out[Len(out)] = ""
            /\ \A i \in 1..Len(kept) :
                 /\ out[2 * i] = ""
                 /\ out[2 * i - 1] =
                      IF own(i)
                      THEN IntStr(1 + Cardinality({j \in 1..(i - 1) : own(j)}))
                               \o ". " \o kept[i]
                      ELSE kept[i]

\* C8 witness: 'a / 2 / a' has come out as '1. a', '2', '2. a'
C8_Witness ==
    /\ stage = "instructions"
    /\ text_in = "a\n2\na"
    /\ text_out = "1. a\n\n2\n\n2. a\n\n"

\* C9, as claimed: only a leading occurrence of the prompt is removed; a text
\* that does not begin with the prompt is only trimmed.
C9_OnlyLeadingEchoStripped ==
    stage = "stripped" =>
        text_out = IF StartsWith(text_in, text_prompt)
                   THEN Strip(From(text_in, Len(text_prompt) + 1))
                   ELSE Strip(text_in)

=============================================================================
